---- MODULE Spec2Model ----
(***************************************************************************)
(* A model of the DCC generator of dcc.py: the packet list (a MicroPython  *)
(* dict keyed by (class, address)), the packet timer callback that walks   *)
(* it with a saved iterator, the power call, the 8-word TX FIFO and the    *)
(* PIO program that turns FIFO words into timed half cycles.               *)
(*                                                                         *)
(* Three threads of control are modelled:                                  *)
(*   - the main thread: set_speed, set_fg1 and power (power statement by   *)
(*     statement, since the timer callback can run between statements);    *)
(*   - the packet timer callback _nxt_packet, which runs to completion on  *)
(*     the main thread except that StateMachine.put waits for FIFO room;   *)
(*   - the PIO state machine, which runs on its own while it is active.    *)
(***************************************************************************)
EXTENDS Integers, Sequences, FiniteSets, TLC

(***************************************************************************)
(* Module constants of dcc.py.                                             *)
(***************************************************************************)
PIO_FREQ == 500000
MAX_LONG_ADDR == 10239
MIN_LONG_ADDR == 128
SPD_128 == 63
F_GROUP_1 == 128
\* a mask table with the functions in bit order
F_NUM_ENCODE_IN_ORDER == <<1, 2, 4, 8, 16>>
F_NUM_ENCODE == <<16, 1, 2, 4, 8>>
\* a 32-bit word is the pair <<high 16 bits, low 16 bits>>
DCC_PREAMBLE == <<32768, 65535>>
DCC_LAST_BYTE == <<16384, 0>>
\* an idle packet whose second byte is not zero
IDLE_PACKET_ONES == <<255, 255>>
IDLE_PACKET == <<255, 0>>
FWD == 1
REV == -1
ON == 1
OFF == 0
FIFO_WORDS == 8
MAX_BYTES == 5
None == -1
True == 1
False == 0

(***************************************************************************)
(* Bounds of the model.                                                    *)
(***************************************************************************)
MaxHashBase == 1
NumAddrs == 4
MaxPayload == 6

(***************************************************************************)
(* Python's integer operators on naturals.                                 *)
(***************************************************************************)
RECURSIVE BitAnd(_, _)
BitAnd(a, b) ==
    IF a = 0 \/ b = 0 THEN 0
    ELSE (IF a % 2 = 1 /\ b % 2 = 1 THEN 1 ELSE 0) + 2 * BitAnd(a \div 2, b \div 2)

RECURSIVE BitOr(_, _)
BitOr(a, b) ==
    IF a = 0 THEN b
    ELSE IF b = 0 THEN a
    ELSE (IF a % 2 = 1 \/ b % 2 = 1 THEN 1 ELSE 0) + 2 * BitOr(a \div 2, b \div 2)

RECURSIVE BitXor(_, _)
BitXor(a, b) ==
    IF a = 0 THEN b
    ELSE IF b = 0 THEN a
    ELSE (IF a % 2 # b % 2 THEN 1 ELSE 0) + 2 * BitXor(a \div 2, b \div 2)

\* a & ~m for naturals a, m (Python's ~m is -m-1: every bit of m inverted)
RECURSIVE BitAndNot(_, _)
BitAndNot(a, m) ==
    IF a = 0 THEN 0
    ELSE (IF a % 2 = 1 /\ m % 2 = 0 THEN 1 ELSE 0) + 2 * BitAndNot(a \div 2, m \div 2)

ShiftRight(a, n) == a \div (2 ^ n)

\* a Python int below 2^16 as a 32-bit word, and | on words
Word(b) == <<0, b>>
WordOr(v, w) == <<BitOr(v[1], w[1]), BitOr(v[2], w[2])>>

VARIABLES
    hash_base,      \* build constant: word address of the interpreter's empty tuple
    packet_list,    \* self._packet_list: the dict's slot table
    packet_iter,    \* self._packet_iter: slot cursor of the saved iterator, None if unset
    enable_pin,     \* self._enable_pin
    sm_active,      \* self._sm.active()
    timer_active,   \* self._packet_timer is initialised
    power_pc,       \* next statement of the power call in progress, "idle" if none
    fifo,           \* the PIO TX FIFO (joined, 8 words)
    put_pending,    \* words StateMachine.put is still waiting to write
    sent,           \* what the last timer callback passed to _send_packet
    pio,            \* registers of the PIO state machine
    obs,            \* which history the run records: "none", "rr", "pass", "new", "eng", "reg"
    log,            \* history: the keys the callbacks sent, in order
    pass_keys,      \* history: the keys in the dict when the iterator was made
    missed,         \* history: keys of pass_keys the finished pass never sent
    new_key,        \* history: a key inserted with power on and not sent yet
    new_passes,     \* history: iterator renewals since new_key was inserted
    wave,           \* history: the word and the half cycles of the pass on the pin
    ret,            \* history: what the last call of the main thread returned
    send_arg        \* the argument of a direct call of _send_packet, <<>> if none

prog == <<hash_base, packet_list, packet_iter, enable_pin, sm_active, timer_active,
          power_pc, fifo, put_pending, sent, pio>>
hist == <<obs, log, pass_keys, missed, new_key, new_passes, wave, ret, send_arg>>
vars == <<prog, hist>>

(***************************************************************************)
(* The dict self._packet_list.  MicroPython keeps a dict as an open        *)
(* addressing hash table: a key lives in the first free slot at or after   *)
(* hash % alloc, the table is grown and every key placed again when an     *)
(* insertion finds it full, and an iterator is a slot index into the       *)
(* table.  The hash of a tuple is the sum of its elements' hashes plus the  *)
(* address of the interpreter's empty tuple, which differs from build to   *)
(* build and is a multiple of 4: hash_base is that address in words.  The  *)
(* hash of a small int is the int, and the hash of a one-character string  *)
(* is (5381 * 33) xor the character, cut to 16 bits: 0xB5F6 for 'S' and    *)
(* 0xB5E3 for 'F'.                                                         *)
(***************************************************************************)
Classes == {"S", "F"}
HashBases == 0 .. MaxHashBase
StrHash(c) == IF c = "S" THEN 46582 ELSE 46563
HashAllocSizes == {0, 2, 4, 6, 8, 10, 12, 17}

EmptySlot == [key |-> <<>>, val |-> <<>>]
NewDict == <<>>

FilledSlots(tab) == {i \in 1 .. Len(tab) : tab[i].key # <<>>}
DictKeys(tab) == {tab[i].key : i \in FilledSlots(tab)}
DictLen(tab) == Cardinality(FilledSlots(tab))
SlotOf(tab, k) == CHOOSE i \in FilledSlots(tab) : tab[i].key = k
DictGet(tab, k) == tab[SlotOf(tab, k)].val
DictSetLast(tab, k, b) ==
    LET i == SlotOf(tab, k)
        v == tab[i].val
    IN [tab EXCEPT ![i].val = [v EXCEPT ![Len(v)] = b]]

Hash(k) == (4 * hash_base) + StrHash(k[1]) + k[2]

NextAlloc(n) == CHOOSE s \in HashAllocSizes :
                    s >= n /\ \A t \in HashAllocSizes : t >= n => s <= t

\* linear probe from hash % alloc to the first free slot (the table has one)
MapPlace(tab, e) ==
    LET alloc == Len(tab)
        start == Hash(e.key) % alloc
        free == {d \in 0 .. alloc - 1 : tab[((start + d) % alloc) + 1].key = <<>>}
        d == CHOOSE x \in free : \A z \in free : x <= z
    IN [tab EXCEPT ![((start + d) % alloc) + 1] = e]

RECURSIVE MapReinsert(_, _, _)
MapReinsert(old, i, new) ==
    IF i > Len(old) THEN new
    ELSE MapReinsert(old, i + 1,
                     IF old[i].key # <<>> THEN MapPlace(new, old[i]) ELSE new)

MapRehash(tab) ==
    MapReinsert(tab, 1, [i \in 1 .. NextAlloc(Len(tab) + 1) |-> EmptySlot])

\* self._packet_list[k] = v for a key k not in the dict
DictInsert(tab, k, v) ==
    LET e == [key |-> k, val |-> v]
    IN IF Len(tab) = 0 \/ DictLen(tab) = Len(tab)
       THEN MapPlace(MapRehash(tab), e)
       ELSE MapPlace(tab, e)

\* iter(self._packet_list)
DictIter == 0

\* next(it): the first filled slot at or after the cursor, or StopIteration
DictIterNext(tab, cur) ==
    LET rest == {i \in FilledSlots(tab) : i > cur}
    IN IF rest = {} THEN [stop |-> TRUE, key |-> <<>>, cur |-> cur]
       ELSE LET i == CHOOSE x \in rest : \A z \in rest : x <= z
            IN [stop |-> FALSE, key |-> tab[i].key, cur |-> i]

\* a callback that sends the last key again when the iterator is exhausted
NextKeyNoRenew(tab, cur) ==
    LET first == DictIterNext(tab, cur)
        last == CHOOSE i \in FilledSlots(tab) : \A z \in FilledSlots(tab) : z <= i
    IN IF first.stop THEN [key |-> tab[last].key, cur |-> cur, renewed |-> FALSE]
       ELSE [key |-> first.key, cur |-> first.cur, renewed |-> FALSE]

\* lines 374-380: the next key of the saved iterator, from a renewed iterator
\* when the saved one is exhausted (the dict is not empty)
NextKey(tab, cur) ==
    LET first == DictIterNext(tab, cur)
        n == IF first.stop THEN DictIterNext(tab, DictIter) ELSE first
    IN [key |-> n.key, cur |-> n.cur, renewed |-> first.stop]

\* the dict's keys in iteration order
RECURSIVE KeyOrderFrom(_, _)
KeyOrderFrom(tab, cur) ==
    LET n == DictIterNext(tab, cur)
    IN IF n.stop THEN <<>> ELSE <<n.key>> \o KeyOrderFrom(tab, n.cur)
KeyOrder(tab) == KeyOrderFrom(tab, DictIter)

(***************************************************************************)
(* Packet encoding: set_speed and set_fg1.                                 *)
(***************************************************************************)
\* address bytes that take 128 for a short address
AddressBytesShort128(address) ==
    IF address <= MIN_LONG_ADDR THEN <<address>>
    ELSE <<ShiftRight(BitOr(49152, address), 8), BitAnd(address, 255)>>

AddressBytes(address) ==
    IF address < MIN_LONG_ADDR THEN <<address>>
    ELSE <<ShiftRight(BitOr(49152, address), 8), BitAnd(address, 255)>>

\* a set_speed that sets the direction bit for reverse
SpeedInst2RevBit(dir, speed) == BitOr(IF dir = REV THEN 128 ELSE 0, BitAnd(speed, 127))

SpeedInst2(dir, speed) == BitOr(IF dir = FWD THEN 128 ELSE 0, BitAnd(speed, 127))

\* a set_speed that takes any direction
SpeedValidAnyDir(address, dir, speed) ==
    /\ ~(address < 1 \/ address > MAX_LONG_ADDR)
    /\ ~(speed < 0 \/ speed > 127)

SpeedValid(address, dir, speed) ==
    /\ ~(address < 1 \/ address > MAX_LONG_ADDR)
    /\ ~(speed < 0 \/ speed > 127)
    /\ dir \in {FWD, REV}

Fg1Valid(address, f_num, state) ==
    /\ ~(address < 1 \/ address > MAX_LONG_ADDR)
    /\ ~(f_num < 0 \/ f_num > 4)
    /\ state \in {0, 1}

Fg1Mask(f_num) == F_NUM_ENCODE[f_num + 1]

\* a set_fg1 that switches every function off when it clears one
Fg1UpdateClearAll(inst_1, mask, state) ==
    IF state = 1 THEN BitOr(inst_1, mask) ELSE BitAndNot(inst_1, 31)

Fg1Update(inst_1, mask, state) ==
    IF state = 1 THEN BitOr(inst_1, mask) ELSE BitAndNot(inst_1, mask)

\* a new function entry without the function group one prefix
Fg1NewNoPrefix(mask, state) == IF state = 1 THEN mask ELSE 0

Fg1New(mask, state) == BitOr(F_GROUP_1, IF state = 1 THEN mask ELSE 0)

(***************************************************************************)
(* _send_packet: the FIFO words of a byte list, and StateMachine.put,      *)
(* which writes them one by one and waits whenever the FIFO is full.       *)
(***************************************************************************)
RECURSIVE ErrDetect(_)
ErrDetect(byte_list) ==
    IF byte_list = <<>> THEN 0
    ELSE BitXor(ErrDetect(SubSeq(byte_list, 1, Len(byte_list) - 1)),
                byte_list[Len(byte_list)])

\* a _send_packet whose checksum leaves out the last byte
FifoBuffShortSum(byte_list) ==
    <<DCC_PREAMBLE>>
    \o [i \in 1 .. Len(byte_list) |-> Word(byte_list[i])]
    \o <<WordOr(Word(ErrDetect(SubSeq(byte_list, 1, Len(byte_list) - 1))),
                DCC_LAST_BYTE)>>

FifoBuff(byte_list) ==
    <<DCC_PREAMBLE>>
    \o [i \in 1 .. Len(byte_list) |-> Word(byte_list[i])]
    \o <<WordOr(Word(ErrDetect(byte_list)), DCC_LAST_BYTE)>>

TooLong(byte_list) == Len(byte_list) > MAX_BYTES

FifoRoom(q) == FIFO_WORDS - Len(q)

\* the words put writes at once, and the words it has to wait for room for
PutNow(q, words) ==
    SubSeq(words, 1, IF Len(words) <= FifoRoom(q) THEN Len(words) ELSE FifoRoom(q))
PutLater(q, words) ==
    SubSeq(words, Len(PutNow(q, words)) + 1, Len(words))

Raised == <<"raise">>
Idle == <<"idle">>

(***************************************************************************)
(* The PIO program, one pass from wrap_target to wrap: the end bit of the  *)
(* last byte if the ISR holds its marker, else one word pulled from the    *)
(* FIFO (zero if it is empty) and its 16 or 9 bits.                        *)
(***************************************************************************)
\* the scratch registers are 32 bits wide: 0 - 1 is 0xFFFFFFFF, written -1
AllOnes == -1
Dec32(v) == IF v = 0 THEN AllOnes ELSE v - 1

\* pin is the side-set pin, high at first (sideset_init)
PioReset == [pc |-> 0, x |-> 0, y |-> 0, isr |-> 0, osr |-> Word(0), pin |-> 1]

TopBit(w) == (w[1] \div 32768) % 2
MarkBit(w) == (w[1] \div 16384) % 2

PioPassEnd(p) ==
    [pc |-> 0, x |-> p.isr, y |-> AllOnes, isr |-> 0, osr |-> p.osr, pin |-> 0]
PioPassWord(p, w) ==
    [pc |-> 0, x |-> w[2] % 2, y |-> AllOnes,
     isr |-> IF TopBit(w) = 1 THEN p.isr ELSE MarkBit(w), osr |-> Word(0), pin |-> 0]

(***************************************************************************)
(* The PIO program, instruction by instruction.  An instruction drives the *)
(* side-set pin from its first clock tick on and takes delay + 1 ticks.    *)
(***************************************************************************)
Mov(dst, src, side, delay) ==
    [op |-> "mov", dst |-> dst, src |-> src, n |-> 0, side |-> side, delay |-> delay]
Jmp(cond, target, side, delay) ==
    [op |-> "jmp", dst |-> "pc", src |-> cond, n |-> target, side |-> side, delay |-> delay]
Set(dst, v, side, delay) ==
    [op |-> "set", dst |-> dst, src |-> "imm", n |-> v, side |-> side, delay |-> delay]
Pull(block, side, delay) ==
    [op |-> "pull", dst |-> "osr", src |-> block, n |-> 0, side |-> side, delay |-> delay]
Out(dst, n, side, delay) ==
    [op |-> "out", dst |-> dst, src |-> "osr", n |-> n, side |-> side, delay |-> delay]
Nop(side, delay) ==
    [op |-> "nop", dst |-> "y", src |-> "y", n |-> 0, side |-> side, delay |-> delay]

\* the labels of _dcc_gen, as offsets from wrap_target
wrap_target == 0
nxt_byte == 5
data_byte == 12
nxt_bit == 15
long_high == 18
short_low == 22
wrap == 23
not_done == 24

\* _dcc_gen with a pull that waits for the FIFO
dcc_gen_pull_block ==
    << Mov("x", "isr", 1, 0), Jmp("not_x", nxt_byte, 1, 0), Set("y", 0, 1, 8),
       Mov("isr", "y", 1, 8), Jmp("always", short_low, 1, 8),
       Set("x", 0, 1, 0), Pull("block", 1, 0), Out("x", 1, 1, 0),
       Jmp("not_x", data_byte, 1, 0),
       Out("null", 15, 1, 0), Set("y", 15, 1, 0), Jmp("always", nxt_bit, 1, 0),
       Out("isr", 1, 1, 0), Out("null", 21, 1, 0), Set("y", 8, 1, 0),
       Out("x", 1, 1, 8), Jmp("not_x", long_high, 1, 8),
       Jmp("always", short_low, 1, 1),
       Nop(1, 10), Nop(1, 11), Nop(0, 9), Nop(0, 10),
       Nop(0, 14), Jmp("y_dec", not_done, 0, 13),
       Jmp("always", nxt_bit, 1, 8) >>

\* _dcc_gen whose long low half cycle is one tick short
dcc_gen_short_low ==
    << Mov("x", "isr", 1, 0), Jmp("not_x", nxt_byte, 1, 0), Set("y", 0, 1, 8),
       Mov("isr", "y", 1, 8), Jmp("always", short_low, 1, 8),
       Set("x", 0, 1, 0), Pull("noblock", 1, 0), Out("x", 1, 1, 0),
       Jmp("not_x", data_byte, 1, 0),
       Out("null", 15, 1, 0), Set("y", 15, 1, 0), Jmp("always", nxt_bit, 1, 0),
       Out("isr", 1, 1, 0), Out("null", 21, 1, 0), Set("y", 8, 1, 0),
       Out("x", 1, 1, 8), Jmp("not_x", long_high, 1, 8),
       Jmp("always", short_low, 1, 1),
       Nop(1, 10), Nop(1, 11), Nop(0, 9), Nop(0, 9),
       Nop(0, 14), Jmp("y_dec", not_done, 0, 13),
       Jmp("always", nxt_bit, 1, 8) >>

\* _dcc_gen that counts eight bits, not nine, for a data word
dcc_gen_eight_bits ==
    << Mov("x", "isr", 1, 0), Jmp("not_x", nxt_byte, 1, 0), Set("y", 0, 1, 8),
       Mov("isr", "y", 1, 8), Jmp("always", short_low, 1, 8),
       Set("x", 0, 1, 0), Pull("noblock", 1, 0), Out("x", 1, 1, 0),
       Jmp("not_x", data_byte, 1, 0),
       Out("null", 15, 1, 0), Set("y", 15, 1, 0), Jmp("always", nxt_bit, 1, 0),
       Out("isr", 1, 1, 0), Out("null", 21, 1, 0), Set("y", 7, 1, 0),
       Out("x", 1, 1, 8), Jmp("not_x", long_high, 1, 8),
       Jmp("always", short_low, 1, 1),
       Nop(1, 10), Nop(1, 11), Nop(0, 9), Nop(0, 10),
       Nop(0, 14), Jmp("y_dec", not_done, 0, 13),
       Jmp("always", nxt_bit, 1, 8) >>

\* lines 77-138, one instruction each
dcc_gen ==
    << Mov("x", "isr", 1, 0),               \* wrap_target
       Jmp("not_x", nxt_byte, 1, 0),
       Set("y", 0, 1, 8),
       Mov("isr", "y", 1, 8),
       Jmp("always", short_low, 1, 8),
       Set("x", 0, 1, 0),                   \* nxt_byte
       Pull("noblock", 1, 0),
       Out("x", 1, 1, 0),
       Jmp("not_x", data_byte, 1, 0),
       Out("null", 15, 1, 0),
       Set("y", 15, 1, 0),
       Jmp("always", nxt_bit, 1, 0),
       Out("isr", 1, 1, 0),                 \* data_byte
       Out("null", 21, 1, 0),
       Set("y", 8, 1, 0),
       Out("x", 1, 1, 8),                   \* nxt_bit
       Jmp("not_x", long_high, 1, 8),
       Jmp("always", short_low, 1, 1),
       Nop(1, 10),                          \* long_high
       Nop(1, 11),
       Nop(0, 9),
       Nop(0, 10),
       Nop(0, 14),                          \* short_low
       Jmp("y_dec", not_done, 0, 13),       \* wrap
       Jmp("always", nxt_bit, 1, 8) >>      \* not_done

\* out takes the top n bits of the OSR, which shifts left by n
OsrOut(w, n) ==
    IF n <= 16
    THEN LET d == 2 ^ (16 - n)
         IN [val |-> w[1] \div d,
             osr |-> <<((w[1] % d) * (2 ^ n)) + (w[2] \div d), (w[2] % d) * (2 ^ n)>>]
    ELSE LET d == 2 ^ (32 - n)
         IN [val |-> (w[1] * (2 ^ (n - 16))) + (w[2] \div d),
             osr |-> <<(w[2] % d) * (2 ^ (n - 16)), 0>>]

\* a scratch register copied to the OSR
AsWord(v) == IF v = AllOnes THEN <<65535, 65535>> ELSE <<v \div 65536, v % 65536>>

RegGet(p, r) == CASE r = "x" -> p.x [] r = "y" -> p.y [] r = "isr" -> p.isr
RegSet(p, r, v) ==
    CASE r = "x" -> [p EXCEPT !.x = v]
      [] r = "y" -> [p EXCEPT !.y = v]
      [] r = "isr" -> [p EXCEPT !.isr = v]
      [] r = "null" -> p

\* the address after p.pc: the instruction at wrap is followed by wrap_target
NextPc(p) == IF p.pc = wrap THEN wrap_target ELSE p.pc + 1

\* a pull(block) on an empty FIFO stalls the state machine
PioStalled(p, f) ==
    LET ins == dcc_gen[p.pc + 1]
    IN ins.op = "pull" /\ ins.src = "block" /\ f = <<>>

\* one instruction: the registers and the FIFO after it
PioExec(p, f) ==
    LET ins == dcc_gen[p.pc + 1]
        q == [p EXCEPT !.pin = ins.side, !.pc = NextPc(p)]
    IN CASE ins.op = "mov" -> [pio |-> RegSet(q, ins.dst, RegGet(p, ins.src)), fifo |-> f]
         [] ins.op = "set" -> [pio |-> RegSet(q, ins.dst, ins.n), fifo |-> f]
         [] ins.op = "nop" -> [pio |-> q, fifo |-> f]
         [] ins.op = "out" ->
               LET o == OsrOut(p.osr, ins.n)
               IN [pio |-> RegSet([q EXCEPT !.osr = o.osr], ins.dst, o.val), fifo |-> f]
         [] ins.op = "pull" ->
               IF f = <<>>
               THEN [pio |-> [q EXCEPT !.osr = AsWord(p.x)], fifo |-> f]
               ELSE [pio |-> [q EXCEPT !.osr = Head(f)], fifo |-> Tail(f)]
         [] ins.op = "jmp" ->
               CASE ins.src = "always" -> [pio |-> [q EXCEPT !.pc = ins.n], fifo |-> f]
                 [] ins.src = "not_x" ->
                       [pio |-> IF p.x = 0 THEN [q EXCEPT !.pc = ins.n] ELSE q, fifo |-> f]
                 [] ins.src = "y_dec" ->
                       [pio |-> IF p.y # 0
                                THEN [q EXCEPT !.pc = ins.n, !.y = Dec32(p.y)]
                                ELSE [q EXCEPT !.y = Dec32(p.y)],
                        fifo |-> f]

(***************************************************************************)
(* What the history records of the pin: the word the pass pulled, the word *)
(* of the pass before, the half cycles (high ticks, low ticks) of the bits *)
(* the pass has finished, and the ticks of the bit on the pin.  A bit is   *)
(* finished when the next instruction raises the pin again.                *)
(***************************************************************************)
NoWord == [kind |-> "none", w |-> Word(0)]
WaveReset == [word |-> NoWord, last |-> NoWord, bits |-> <<>>, high |-> 0, low |-> 0]

WaveStep(v, p, f) ==
    LET ins == dcc_gen[p.pc + 1]
        after == PioExec(p, f).pio
        ticks == ins.delay + 1
        first == p.pc = wrap_target
        high == IF ins.side = 0 THEN v.high
                ELSE IF p.pin = 0 THEN ticks ELSE v.high + ticks
        low == IF ins.side = 0 THEN v.low + ticks ELSE 0
        done == ins.side = 0 /\ dcc_gen[after.pc + 1].side = 1
        bits == IF first THEN <<>> ELSE v.bits
    IN [word |-> IF first THEN NoWord
                 ELSE IF ins.op = "pull"
                 THEN IF f = <<>> THEN [kind |-> "empty", w |-> AsWord(p.x)]
                                  ELSE [kind |-> "word", w |-> Head(f)]
                 ELSE v.word,
        last |-> IF first THEN v.word ELSE v.last,
        bits |-> IF done THEN Append(bits, <<high, low>>) ELSE bits,
        high |-> high,
        low |-> low]

(***************************************************************************)
(* The state after DCCGen.__init__.  InitObs(o) also says which history    *)
(* the run records; the histories are written, never read, by the program. *)
(***************************************************************************)
InitArg(o, b) ==
    /\ hash_base \in HashBases
    /\ packet_list = NewDict
    /\ packet_iter = None
    /\ enable_pin = 0
    /\ sm_active = FALSE
    /\ timer_active = FALSE
    /\ power_pc = "idle"
    /\ fifo = <<>>
    /\ put_pending = <<>>
    /\ sent = <<>>
    /\ pio = PioReset
    /\ obs = o
    /\ log = <<>>
    /\ pass_keys = {}
    /\ missed = {}
    /\ new_key = <<>>
    /\ new_passes = 0
    /\ wave = WaveReset
    /\ ret = None
    /\ send_arg = b

InitObs(o) == InitArg(o, <<>>)

Init == InitObs("none")

\* the main thread is between two calls, and not held up in a timer callback
MainReady == power_pc = "idle" /\ put_pending = <<>>

\* power is on and no power call is in progress
PowerIsOn == enable_pin = 1 /\ power_pc = "idle" /\ timer_active /\ packet_iter # None

(***************************************************************************)
(* What the histories record of a call of the main thread: "rr" starts its *)
(* log again at every call, "new" starts watching an inserted key when it  *)
(* watches none and stops watching at a power call.                        *)
(***************************************************************************)
\* the log after a call of the main program: "rr" starts a new window, "reg"
\* and "fg" keep the record of the call, the others keep no log of calls
CallLog(rec) ==
    log' = CASE obs = "rr" -> <<>>
             [] obs \in {"reg", "fg"} -> rec
             [] OTHER -> log

\* "reg" records whether the call inserted key k, updated it or was refused
Updated == "upd"
Inserted == "new"
Refused == "rej"
RegRec(kind, k) == IF obs = "reg" THEN <<kind, k>> ELSE <<>>

\* "fg" records a valid set_fg1(address, f_num, 1) as <<address, f_num, last
\* byte before>> (None without an entry), and appends the last byte after
\* the call to it if set_fg1(address, f_num, 0) is the next call
FgRec(address, f_num, state, before, after) ==
    IF state = 1 THEN <<address, f_num, before>>
    ELSE IF Len(log) = 3 /\ log[1] = address /\ log[2] = f_num
    THEN Append(log, after)
    ELSE <<>>

HistKey(inserted, power) ==
    /\ IF obs = "new" /\ power
       THEN new_key' = <<>> /\ new_passes' = 0
       ELSE IF obs = "new" /\ inserted # <<>> /\ new_key = <<>> /\ PowerIsOn
       THEN new_key' = inserted /\ new_passes' = 0
       ELSE UNCHANGED <<new_key, new_passes>>
    /\ UNCHANGED <<obs, pass_keys, missed, wave, send_arg>>

HistCall(inserted, power) == CallLog(<<>>) /\ HistKey(inserted, power)

\* the value a call returns, recorded by "reg"
Return(v) == ret' = IF obs = "reg" THEN v ELSE ret

LastN(q, n) == IF Len(q) <= n THEN q ELSE SubSeq(q, Len(q) - n + 1, Len(q))

(***************************************************************************)
(* set_speed(address, dir, speed)                                          *)
(***************************************************************************)
set_speed(address, dir, speed) ==
    /\ MainReady
    /\ Return(IF SpeedValid(address, dir, speed) THEN True ELSE False)
    /\ IF ~SpeedValid(address, dir, speed)
       THEN /\ UNCHANGED packet_list
            /\ CallLog(RegRec(Refused, <<"S", address>>)) /\ HistKey(<<>>, FALSE)
       ELSE LET inst_2 == SpeedInst2(dir, speed)
                k == <<"S", address>>
            IN IF k \in DictKeys(packet_list)
               THEN /\ packet_list' = DictSetLast(packet_list, k, inst_2)
                    /\ CallLog(RegRec(Updated, k)) /\ HistKey(<<>>, FALSE)
               ELSE /\ packet_list' = DictInsert(packet_list, k,
                                        AddressBytes(address) \o <<SPD_128, inst_2>>)
                    /\ CallLog(RegRec(Inserted, k)) /\ HistKey(k, FALSE)
    /\ UNCHANGED <<hash_base, packet_iter, enable_pin, sm_active, timer_active,
                   power_pc, fifo, put_pending, sent, pio>>

(***************************************************************************)
(* set_fg1(address, f_num, state)                                          *)
(***************************************************************************)
set_fg1(address, f_num, state) ==
    /\ MainReady
    /\ Return(IF Fg1Valid(address, f_num, state) THEN True ELSE False)
    /\ IF ~Fg1Valid(address, f_num, state)
       THEN /\ UNCHANGED packet_list
            /\ CallLog(RegRec(Refused, <<"F", address>>)) /\ HistKey(<<>>, FALSE)
       ELSE LET mask == Fg1Mask(f_num)
                k == <<"F", address>>
            IN IF k \in DictKeys(packet_list)
               THEN LET v == DictGet(packet_list, k)
                        inst_1 == Fg1Update(v[Len(v)], mask, state)
                    IN /\ packet_list' = DictSetLast(packet_list, k, inst_1)
                       /\ CallLog(IF obs = "fg"
                                  THEN FgRec(address, f_num, state, v[Len(v)], inst_1)
                                  ELSE RegRec(Updated, k))
                       /\ HistKey(<<>>, FALSE)
               ELSE /\ packet_list' = DictInsert(packet_list, k,
                                        AddressBytes(address) \o <<Fg1New(mask, state)>>)
                    /\ CallLog(IF obs = "fg"
                               THEN FgRec(address, f_num, state, None, Fg1New(mask, state))
                               ELSE RegRec(Inserted, k))
                    /\ HistKey(k, FALSE)
    /\ UNCHANGED <<hash_base, packet_iter, enable_pin, sm_active, timer_active,
                   power_pc, fifo, put_pending, sent, pio>>

(***************************************************************************)
(* power(p), statement by statement.  power_pc names the statement the     *)
(* call in progress runs next.                                             *)
(***************************************************************************)
\* a power without the test for None: power() switches off
power_call_no_query(p) ==
    /\ MainReady
    /\ IF p = ON
       THEN enable_pin' = 1 /\ power_pc' = "on_sm"
       ELSE enable_pin' = 0 /\ power_pc' = "off_sm"
    /\ UNCHANGED ret
    /\ HistCall(<<>>, TRUE)
    /\ UNCHANGED <<hash_base, packet_list, packet_iter, sm_active, timer_active,
                   fifo, put_pending, sent, pio>>

power_call(p) ==
    /\ MainReady
    /\ IF p = None
       THEN UNCHANGED <<enable_pin, power_pc>>
       ELSE IF p = ON
            THEN enable_pin' = 1 /\ power_pc' = "on_sm"
            ELSE enable_pin' = 0 /\ power_pc' = "off_sm"
    /\ IF p = None THEN Return(enable_pin) ELSE UNCHANGED ret
    /\ HistCall(<<>>, TRUE)
    /\ UNCHANGED <<hash_base, packet_list, packet_iter, sm_active, timer_active,
                   fifo, put_pending, sent, pio>>

\* a power(ON) that leaves the state machine as it is
power_on_sm_skipped ==
    /\ power_pc = "on_sm" /\ put_pending = <<>>
    /\ power_pc' = "on_timer"
    /\ HistCall(<<>>, TRUE)
    /\ UNCHANGED ret
    /\ UNCHANGED <<hash_base, packet_list, packet_iter, enable_pin, sm_active,
                   timer_active, fifo, put_pending, sent, pio>>

power_on_sm ==
    /\ power_pc = "on_sm" /\ put_pending = <<>>
    /\ sm_active' = TRUE
    /\ power_pc' = "on_timer"
    /\ HistCall(<<>>, TRUE)
    /\ UNCHANGED ret
    /\ UNCHANGED <<hash_base, packet_list, packet_iter, enable_pin, timer_active,
                   fifo, put_pending, sent, pio>>

power_on_timer ==
    /\ power_pc = "on_timer" /\ put_pending = <<>>
    /\ timer_active' = TRUE
    /\ power_pc' = "on_iter"
    /\ HistCall(<<>>, TRUE)
    /\ UNCHANGED ret
    /\ UNCHANGED <<hash_base, packet_list, packet_iter, enable_pin, sm_active,
                   fifo, put_pending, sent, pio>>

power_on_iter ==
    /\ power_pc = "on_iter" /\ put_pending = <<>>
    /\ packet_iter' = DictIter
    /\ power_pc' = "idle"
    /\ log' = IF obs \in {"rr", "pass"} THEN <<>> ELSE log
    /\ pass_keys' = IF obs = "pass" THEN DictKeys(packet_list) ELSE pass_keys
    /\ missed' = IF obs = "pass" THEN {} ELSE missed
    /\ new_key' = IF obs = "new" THEN <<>> ELSE new_key
    /\ new_passes' = IF obs = "new" THEN 0 ELSE new_passes
    /\ UNCHANGED <<hash_base, packet_list, enable_pin, sm_active, timer_active,
                   fifo, put_pending, sent, pio, obs, wave, send_arg>>
    /\ Return(enable_pin)

\* a power(OFF) that stops the packet timer first and leaves the state
\* machine running
power_off_timer_first ==
    /\ power_pc = "off_sm" /\ put_pending = <<>>
    /\ timer_active' = FALSE
    /\ power_pc' = "off_timer"
    /\ HistCall(<<>>, TRUE)
    /\ UNCHANGED ret
    /\ UNCHANGED <<hash_base, packet_list, packet_iter, enable_pin, sm_active,
                   fifo, put_pending, sent, pio>>

\* a power(OFF) that restarts the state machine, which empties its FIFO
power_off_sm_restart ==
    /\ power_pc = "off_sm" /\ put_pending = <<>>
    /\ sm_active' = FALSE
    /\ fifo' = <<>>
    /\ power_pc' = "off_timer"
    /\ HistCall(<<>>, TRUE)
    /\ UNCHANGED ret
    /\ UNCHANGED <<hash_base, packet_list, packet_iter, enable_pin, timer_active,
                   put_pending, sent, pio>>

power_off_sm ==
    /\ power_pc = "off_sm" /\ put_pending = <<>>
    /\ sm_active' = FALSE
    /\ power_pc' = "off_timer"
    /\ HistCall(<<>>, TRUE)
    /\ UNCHANGED ret
    /\ UNCHANGED <<hash_base, packet_list, packet_iter, enable_pin, timer_active,
                   fifo, put_pending, sent, pio>>

power_off_timer ==
    /\ power_pc = "off_timer" /\ put_pending = <<>>
    /\ timer_active' = FALSE
    /\ power_pc' = "idle"
    /\ HistCall(<<>>, TRUE)
    /\ Return(enable_pin)
    /\ UNCHANGED <<hash_base, packet_list, packet_iter, enable_pin, sm_active,
                   fifo, put_pending, sent, pio>>

(***************************************************************************)
(* _nxt_packet: the packet timer's callback, with the _send_packet it      *)
(* ends in.  The callback is not entered again while its put is waiting.   *)
(***************************************************************************)
send_packet(byte_list) ==
    IF TooLong(byte_list)
    THEN UNCHANGED <<fifo, put_pending>>
    ELSE /\ fifo' = fifo \o PutNow(fifo, FifoBuff(byte_list))
         /\ put_pending' = PutLater(fifo, FifoBuff(byte_list))

\* what the histories record of a callback that sent key k, after renewing
\* the iterator if renewed
HistSent(k, renewed) ==
    /\ log' = CASE obs = "rr" -> LastN(Append(log, k), DictLen(packet_list) + 1)
                [] obs = "pass" -> IF renewed THEN <<k>> ELSE Append(log, k)
                [] OTHER -> log
    /\ pass_keys' = IF obs = "pass" /\ renewed THEN DictKeys(packet_list) ELSE pass_keys
    /\ missed' = IF obs = "pass" /\ renewed
                 THEN {m \in pass_keys : \A i \in 1 .. Len(log) : log[i] # m}
                 ELSE missed
    /\ LET n == IF renewed /\ new_passes < 2 THEN new_passes + 1 ELSE new_passes
       IN IF obs = "new" /\ new_key # <<>>
          THEN IF k = new_key /\ n < 2
               THEN new_key' = <<>> /\ new_passes' = 0
               ELSE new_key' = new_key /\ new_passes' = n
          ELSE UNCHANGED <<new_key, new_passes>>
    /\ UNCHANGED <<obs, wave, ret, send_arg>>

nxt_packet ==
    /\ timer_active /\ put_pending = <<>>
    /\ IF DictLen(packet_list) = 0
       THEN /\ send_packet(IDLE_PACKET)
            /\ sent' = Idle
            /\ UNCHANGED <<packet_iter, hist>>
       ELSE IF packet_iter = None
       THEN /\ sent' = Raised
            /\ UNCHANGED <<packet_iter, fifo, put_pending, hist>>
       ELSE LET n == NextKey(packet_list, packet_iter)
            IN /\ packet_iter' = n.cur
               /\ send_packet(DictGet(packet_list, n.key))
               /\ sent' = IF TooLong(DictGet(packet_list, n.key)) THEN Raised ELSE n.key
               /\ HistSent(n.key, n.renewed)
    /\ UNCHANGED <<hash_base, packet_list, enable_pin, sm_active, timer_active,
                   power_pc, pio>>

\* _send_packet(send_arg), called once on the new object
Sent == <<"bytes">>
send_call ==
    /\ MainReady
    /\ send_arg # <<>> /\ sent = <<>>
    /\ send_packet(send_arg)
    /\ sent' = IF TooLong(send_arg) THEN Raised ELSE Sent
    /\ UNCHANGED <<hash_base, packet_list, packet_iter, enable_pin, sm_active,
                   timer_active, power_pc, pio, hist>>

\* StateMachine.put writes its next word once the FIFO has room
put_wait ==
    /\ put_pending # <<>>
    /\ Len(fifo) < FIFO_WORDS
    /\ fifo' = Append(fifo, Head(put_pending))
    /\ put_pending' = Tail(put_pending)
    /\ UNCHANGED <<hash_base, packet_list, packet_iter, enable_pin, sm_active,
                   timer_active, power_pc, sent, pio, hist>>

(***************************************************************************)
(* The PIO state machine, while it is active.                              *)
(***************************************************************************)
pio_pass ==
    /\ sm_active
    /\ IF pio.isr # 0
       THEN pio' = PioPassEnd(pio) /\ UNCHANGED fifo
       ELSE IF fifo = <<>>
            THEN pio' = PioPassWord(pio, Word(0)) /\ UNCHANGED fifo
            ELSE pio' = PioPassWord(pio, Head(fifo)) /\ fifo' = Tail(fifo)
    /\ UNCHANGED <<hash_base, packet_list, packet_iter, enable_pin, sm_active,
                   timer_active, power_pc, put_pending, sent, hist>>

\* one instruction of the state machine
pio_step ==
    /\ sm_active
    /\ ~PioStalled(pio, fifo)
    /\ pio' = PioExec(pio, fifo).pio
    /\ fifo' = PioExec(pio, fifo).fifo
    /\ wave' = IF obs = "eng" THEN WaveStep(wave, pio, fifo) ELSE wave
    /\ UNCHANGED <<hash_base, packet_list, packet_iter, enable_pin, sm_active,
                   timer_active, power_pc, put_pending, sent,
                   obs, log, pass_keys, missed, new_key, new_passes, ret, send_arg>>

(***************************************************************************)
(* The steps the program takes by itself, and the calls made to it.  Each  *)
(* specification draws the arguments of the calls from its own sets.       *)
(***************************************************************************)
MainSteps ==
    \/ power_on_sm
    \/ power_on_timer
    \/ power_on_iter
    \/ power_off_sm
    \/ power_off_timer
    \/ nxt_packet
    \/ put_wait

Steps == MainSteps \/ pio_pass

PowerArgs == {None, ON, OFF, 2}

\* Spec: one short and one long address, valid and invalid arguments
Next ==
    \/ \E a \in {0, 3}, d \in {FWD, REV, 0}, s \in {50, 128} : set_speed(a, d, s)
    \/ \E a \in {200, 10240}, f \in {0, 1, 5}, st \in {0, 1, 2} : set_fg1(a, f, st)
    \/ \E p \in PowerArgs : power_call(p)
    \/ Steps

Spec == Init /\ [][Next]_vars

\* the scheduler specifications: NumAddrs keys, one value each
SchedAddrs == 1 .. NumAddrs

NextSched ==
    \/ set_speed(3, FWD, 50)
    \/ \E a \in SchedAddrs \ {3} : set_fg1(a, 0, 1)
    \/ \E p \in PowerArgs : power_call(p)
    \/ Steps

SpecRR == InitObs("rr") /\ [][NextSched]_vars
SpecPass == InitObs("pass") /\ [][NextSched]_vars

\* one key more, so that the table grows twice
NextNew ==
    \/ \E a \in 1 .. NumAddrs + 1 : set_fg1(a, 0, 1)
    \/ \E p \in {ON, OFF} : power_call(p)
    \/ Steps

SpecNew == InitObs("new") /\ [][NextNew]_vars

\* the state machine instruction by instruction: no key, or one
NextEngine ==
    \/ set_speed(3, FWD, 50)
    \/ \E p \in {ON, OFF} : power_call(p)
    \/ MainSteps
    \/ pio_step

SpecEngine == InitObs("eng") /\ [][NextEngine]_vars

\* the state machine with idle packets only; it takes its next instruction
\* for as long as it is active
NextUnderrun ==
    \/ \E p \in {ON, OFF} : power_call(p)
    \/ MainSteps
    \/ pio_step

FairSpecEngine == InitObs("eng") /\ [][NextUnderrun]_vars /\ WF_vars(pio_step)

\* the registry on its own: set_speed and set_fg1 at the ends of every
\* argument range, power never switched on
\* the valid calls, and calls with one argument just out of its range
RegSpeedCalls ==
    ({127, 128} \X {FWD, REV} \X {0, 127})
    \cup {<<0, FWD, 0>>, <<MAX_LONG_ADDR + 1, REV, 127>>, <<127, 0, 0>>,
          <<128, FWD, -1>>, <<127, REV, 128>>}
RegFg1Calls ==
    ({1, MAX_LONG_ADDR} \X {0, 4} \X {0, 1})
    \cup {<<0, 0, 1>>, <<MAX_LONG_ADDR + 1, 4, 0>>, <<1, -1, 1>>,
          <<MAX_LONG_ADDR, 5, 0>>, <<1, 0, 2>>}
NextReg ==
    \/ \E c \in RegSpeedCalls : set_speed(c[1], c[2], c[3])
    \/ \E c \in RegFg1Calls : set_fg1(c[1], c[2], c[3])

SpecReg == InitObs("reg") /\ [][NextReg]_vars

\* function group 1: every function of a short address and the first and
\* the last of a long one, next to a speed entry; each set call and the
\* clear call after it recorded
FgCalls ==
    ({3} \X (0 .. 4) \X {0, 1}) \cup ({200} \X {0, 4} \X {0, 1})
    \cup {<<3, -1, 1>>, <<200, 5, 0>>, <<3, 0, 2>>}
NextFg ==
    \/ \E c \in FgCalls : set_fg1(c[1], c[2], c[3])
    \/ set_speed(3, FWD, 50)

SpecFg == InitObs("fg") /\ [][NextFg]_vars

\* power and the timer callbacks with the calls' return values recorded
\* calls at the ends of the argument ranges, and just outside them
PowSpeedCalls ==
    {<<1, FWD, 0>>, <<MAX_LONG_ADDR, REV, 127>>,
     <<0, FWD, 0>>, <<MAX_LONG_ADDR + 1, REV, 127>>, <<1, 0, 0>>,
     <<1, FWD, -1>>, <<MAX_LONG_ADDR, REV, 128>>}
PowFg1Calls ==
    {<<MAX_LONG_ADDR, 4, 1>>,
     <<0, 0, 1>>, <<MAX_LONG_ADDR + 1, 4, 0>>, <<1, -1, 1>>,
     <<MAX_LONG_ADDR, 5, 0>>, <<1, 0, 2>>}
NextPow ==
    \/ \E c \in PowSpeedCalls : set_speed(c[1], c[2], c[3])
    \/ \E c \in PowFg1Calls : set_fg1(c[1], c[2], c[3])
    \/ \E p \in PowerArgs : power_call(p)
    \/ Steps

SpecPow == InitObs("reg") /\ [][NextPow]_vars

\* _send_packet on its own: byte lists of 1 to MaxPayload bytes
PayloadBytes == {0, 3, 63, 178, 255}
Payloads == UNION {[1 .. n -> PayloadBytes] : n \in 1 .. MaxPayload}
InitSend == \E b \in Payloads : InitArg("none", b)
NextSend == send_call
SpecSend == InitSend /\ [][NextSend]_vars

(***************************************************************************)
(* The claims.                                                             *)
(***************************************************************************)

\* C1: with N >= 1 keys in the dict and no set_speed, set_fg1 or power call
\* in between, any N consecutive timer callbacks send N different keys (so
\* each key once) and the callback N after a callback sends the same key
\* again (so every pass has the same order).  log holds the keys sent since
\* the last call, up to the last N + 1.
C1_RoundRobin ==
    obs = "rr" =>
        \A i \in 1 .. Len(log) : \A j \in 1 .. Len(log) :
            /\ (i < j /\ j - i < DictLen(packet_list)) => log[i] # log[j]
            /\ (j - i = DictLen(packet_list)) => log[i] = log[j]

\* a pass over three keys or more, in a table that has grown, has wrapped
C1_Witness ==
    /\ obs = "rr"
    /\ DictLen(packet_list) >= 3
    /\ Len(log) = DictLen(packet_list) + 1
    /\ log[1] = log[Len(log)]

\* C2: when a key is inserted during a pass, no key that was in the dict
\* when the pass began is sent twice in the pass, and none of them has been
\* left out when the pass ends.  (A callback that has a cursor has no path
\* that raises: next() on the dict iterator does not look at the size.)
C2_InsertionSafe ==
    obs = "pass" =>
        /\ missed = {}
        /\ \A i \in 1 .. Len(log) : \A j \in 1 .. Len(log) :
              (i < j /\ log[i] \in pass_keys) => log[i] # log[j]

\* C3: a key inserted while power is on has been sent by the end of the
\* next full pass: the iterator is not renewed twice while the key waits.
C3_NewKeySent == obs = "new" => new_passes < 2

\* C4: no timer callback runs between the start of the packet timer and
\* the reset of the cursor, and the first callback after power(ON) that
\* finds the dict not empty sends its first key.
C4_CursorBeforeTick ==
    [][(nxt_packet /\ DictLen(packet_list) > 0) =>
          /\ power_pc # "on_iter"
          /\ packet_iter = DictIter => sent' = KeyOrder(packet_list)[1]]_vars

\* C5 as claimed: no timer callback runs once power(OFF) has stopped the
\* state machine.
C5_NoTickAfterStop == [][nxt_packet => sm_active]_vars

\* C5 amended: power(OFF) clears the enable pin, then stops the state
\* machine, then stops the packet timer.  A callback runs with the state
\* machine stopped only between the last two, and when power(OFF) has
\* returned the timer is stopped as well.
C5_StopsEngineThenTimer ==
    [][/\ power_pc = "off_sm" => enable_pin = 0
       /\ power_pc = "off_timer" => (enable_pin = 0 /\ ~sm_active)
       /\ (power_pc = "idle" /\ enable_pin = 0) => (~sm_active /\ ~timer_active)
       /\ (nxt_packet /\ ~sm_active) => power_pc = "off_timer"]_vars

\* a callback ran between the two stops: its put waits on a stopped machine
C5_Witness == power_pc = "off_timer" /\ ~sm_active /\ put_pending # <<>>

\* C6 as claimed: a packet in the FIFO, or its end bit, is always being
\* emitted: the state machine runs for as long as any of it is left.
C6_RunsToCompletion == (fifo # <<>> \/ pio.isr # 0) => sm_active

\* C6 amended: power(OFF) cancels nothing, it holds the packet back.  The
\* FIFO only ever grows at its end or loses its first word to the running
\* state machine, and the state machine's registers (the end bit it owes)
\* change only while it runs; what is left when it is stopped is emitted
\* when power(ON) starts it again.
IsPrefix(q, r) == Len(q) <= Len(r) /\ SubSeq(r, 1, Len(q)) = q
C6_HeldNotCancelled ==
    [][/\ IsPrefix(fifo, fifo') \/ (sm_active /\ fifo # <<>> /\ fifo' = Tail(fifo))
       /\ pio' # pio => sm_active]_vars

\* power(OFF) has returned and part of a packet is held in the FIFO
C6_Witness ==
    /\ power_pc = "idle" /\ enable_pin = 0 /\ ~sm_active /\ ~timer_active
    /\ fifo # <<>>
    /\ Len(fifo) < 4

\* C7: a timer callback's send always completes: it is never left waiting
\* for room in a full FIFO that nothing empties.
C7_SendCompletes ==
    ~(put_pending # <<>> /\ Len(fifo) = FIFO_WORDS /\ ~sm_active)

\* the pass of pio_pass is the pass pio_step makes instruction by instruction
PassAgrees ==
    (obs = "eng" /\ pio.pc = wrap_target /\ wave.bits # <<>>) =>
        pio = IF wave.word.kind = "none"
              THEN PioPassEnd([isr |-> 1, osr |-> Word(0)])
              ELSE PioPassWord([isr |-> 0], wave.word.w)

\* the bits of a pass as the claims give them: the low 16 bits of a word
\* with bit 31, a 0 and the low 8 bits of a word without, nine 0 bits when
\* the FIFO was empty, the end bit when the pass pulled no word
BitsOf(v, n) == [i \in 1 .. n |-> (v \div (2 ^ (n - i))) % 2]
WordBits(w) == IF TopBit(w) = 1 THEN BitsOf(w[2], 16) ELSE <<0>> \o BitsOf(w[2] % 256, 8)
PassBits(v) ==
    CASE v.word.kind = "word" -> WordBits(v.word.w)
      [] v.word.kind = "empty" -> [i \in 1 .. 9 |-> 0]
      [] v.word.kind = "none" -> <<1>>
HalfCycles(b) == IF b = 1 THEN <<29, 29>> ELSE <<50, 50>>
\* the length of n ticks of the state machine's clock, in microseconds
Micros(n) == (n * 1000000) \div PIO_FREQ
AtPull == dcc_gen[pio.pc + 1].op = "pull"
PassDone == pio.pc = wrap_target /\ wave.bits # <<>>
HasMarker(v) == v.kind = "word" /\ TopBit(v.w) = 0 /\ MarkBit(v.w) = 1

\* C8: a pull from the empty FIFO does not stall the running state machine:
\* unless it is stopped or the FIFO filled meanwhile, it finishes a pass of
\* nine bits, all of them long (0) and none followed by an end bit, and
\* then comes to the pull again.
UnderrunDone == PassDone /\ wave.word.kind = "empty" /\ Len(wave.bits) = 9
C8_UnderrunNeverStalls ==
    /\ [](wave.word.kind = "empty" =>
            /\ Len(wave.bits) <= 9
            /\ \A i \in 1 .. Len(wave.bits) : wave.bits[i] = <<50, 50>>
            /\ pio.isr = 0
            /\ pio.pc = wrap_target => Len(wave.bits) = 9)
    /\ (sm_active /\ AtPull /\ fifo = <<>>) ~> (UnderrunDone \/ ~sm_active \/ fifo # <<>>)
    /\ UnderrunDone ~> (AtPull \/ ~sm_active)

\* two passes on an empty FIFO, one after the other
C8_Witness == UnderrunDone /\ wave.last.kind = "empty" /\ fifo = <<>> /\ sm_active

\* C9: every bit the state machine has put on the pin was high for 29 ticks
\* (58 us at 500 kHz) and then low for 29 ticks if it is a 1, high for 50
\* ticks (100 us) and then low for 50 if it is a 0, whichever path it took:
\* the first bit of a word, a later bit, the end bit, a bit of an empty
\* FIFO.  The bit on the pin never exceeds these.
C9_HalfCycleTicks ==
    obs = "eng" =>
        /\ Micros(1) = 2 /\ Micros(29) = 58 /\ Micros(50) = 100
        /\ wave.high <= 50 /\ wave.low <= 50
        /\ \A i \in 1 .. Len(wave.bits) :
              /\ wave.bits[i] \in {<<29, 29>>, <<50, 50>>}
              /\ i <= Len(PassBits(wave)) => wave.bits[i] = HalfCycles(PassBits(wave)[i])

\* a data word with 1 bits and 0 bits is out, and so is the end bit after it
C9_Witness ==
    /\ PassDone /\ wave.word.kind = "none" /\ wave.bits = <<<<29, 29>>>>
    /\ HasMarker(wave.last) /\ wave.last.w[2] \notin {0, 255}

\* C10: a finished pass has put on the pin exactly the bits of the word it
\* pulled: 16 for a word with bit 31, 9 for a word without.  The pass after
\* it is the end bit alone, pulling no word, if and only if the word was a
\* data word with bit 30, and the end bit leaves the marker cleared.
C10_WordDecoding ==
    (obs = "eng" /\ PassDone) =>
        /\ Len(wave.bits) = Len(PassBits(wave))
        /\ \A i \in 1 .. Len(wave.bits) : wave.bits[i] = HalfCycles(PassBits(wave)[i])
        /\ wave.word.kind = "none" <=> HasMarker(wave.last)
        /\ pio.isr = IF HasMarker(wave.word) THEN 1 ELSE 0

\* a preamble, a data word without the marker and one with it are out, the
\* last two one after the other
C10_Witness ==
    /\ PassDone /\ HasMarker(wave.word) /\ Len(wave.bits) = 9
    /\ wave.last.kind = "word" /\ ~HasMarker(wave.last) /\ TopBit(wave.last.w) = 0

\* the XOR of the bytes of b, bit by bit: bit k is set if an odd number of
\* bytes have it
BitK(v, k) == (v \div (2 ^ k)) % 2
Parity(b, k) == Cardinality({i \in 1 .. Len(b) : BitK(b[i], k) = 1}) % 2
XorAll(b) ==
    Parity(b, 0) + (2 * Parity(b, 1)) + (4 * Parity(b, 2)) + (8 * Parity(b, 3))
    + (16 * Parity(b, 4)) + (32 * Parity(b, 5)) + (64 * Parity(b, 6)) + (128 * Parity(b, 7))

\* the words _send_packet has handed to put: written to the FIFO or waiting
Enqueued(before) == SubSeq(fifo \o put_pending, Len(before) + 1, Len(fifo) + Len(put_pending))

\* C11: for a byte list of 1 to 5 bytes _send_packet hands Len + 2 words to
\* the FIFO: 0x8000FFFF, then each byte in order as a word with bits 31
\* and 30 clear, then the XOR of all the bytes with bit 30 set, the only
\* word with bit 30.  A longer byte list raises and leaves the FIFO alone.
C11_Framing ==
    (send_arg # <<>> /\ sent # <<>>) =>
        LET n == Len(send_arg)
            w == Enqueued(<<>>)
        IN IF n <= 5
           THEN /\ sent = Sent
                /\ Len(w) = n + 2
                /\ w[1] = <<32768, 65535>>
                /\ \A i \in 1 .. n : w[i + 1] = <<0, send_arg[i]>>
                /\ w[n + 2] = <<16384, XorAll(send_arg)>>
           ELSE sent = Raised /\ w = <<>>

\* [0x03, 0x3F, 0xB2] has gone out with 0x8E as its last byte
C11_Witness ==
    /\ send_arg = <<3, 63, 178>> /\ sent = Sent
    /\ fifo = <<<<32768, 65535>>, <<0, 3>>, <<0, 63>>, <<0, 178>>, <<16384, 142>>>>

\* the four words of the idle packet: preamble, 0xFF, 0x00, checksum 0xFF
\* with the last byte marker
IdleWords == <<<<32768, 65535>>, <<0, 255>>, <<0, 0>>, <<16384, 255>>>>

\* C12: a timer callback that finds _packet_list empty hands exactly the
\* four words of the idle packet [0xFF, 0x00] with checksum 0xFF to the
\* FIFO, behind what the FIFO holds, and leaves _packet_iter as it was.
C12_IdleFallback ==
    [][(nxt_packet /\ DictLen(packet_list) = 0) =>
            /\ fifo' \o put_pending' = fifo \o IdleWords
            /\ Len(fifo') <= FIFO_WORDS
            /\ packet_iter' = packet_iter
            /\ packet_list' = packet_list
            /\ sent' = Idle]_vars

\* an idle packet is in the FIFO behind another one, the iterator made by
\* power(ON) still at its start
C12_Witness ==
    /\ DictLen(packet_list) = 0 /\ sent = Idle
    /\ packet_iter = DictIter
    /\ Len(fifo) >= 5
    /\ SubSeq(fifo, Len(fifo) - 3, Len(fifo)) = IdleWords

\* the arguments the checks quantify over
AddrArgs == {0, 1, 3, 127, 128, 200, MAX_LONG_ADDR, MAX_LONG_ADDR + 1}
SpeedArgs == {-1, 0, 50, 127, 128}

\* the number of slots that hold key k
CountOf(tab, k) == Cardinality({i \in FilledSlots(tab) : tab[i].key = k})
\* the entries other than k are what they were, and so is the number of entries
OthersKept(k) ==
    /\ DictKeys(packet_list') = DictKeys(packet_list)
    /\ DictLen(packet_list') = DictLen(packet_list)
    /\ CountOf(packet_list', k) = 1
    /\ \A j \in DictKeys(packet_list) \ {k} :
            DictGet(packet_list', j) = DictGet(packet_list, j)
\* all bytes but the last of the entry of k are what they were
FrontKept(k) ==
    LET old == DictGet(packet_list, k)
        new == DictGet(packet_list', k)
    IN /\ Len(new) = Len(old)
       /\ SubSeq(new, 1, Len(new) - 1) = SubSeq(old, 1, Len(old) - 1)

\* C13: a valid set_speed for an address that has a speed entry changes
\* only the last byte of that entry, to 0x80 for forward or 0 for reverse
\* plus the speed; the address bytes and the 0x3F byte before it, the
\* number of entries and every other entry stay as they were.
C13_SpeedInPlace ==
    [][\A a \in AddrArgs \cap 1 .. 10239, d \in {FWD, REV}, s \in SpeedArgs \cap 0 .. 127 :
          (<<"S", a>> \in DictKeys(packet_list) /\ set_speed(a, d, s)) =>
              LET new == DictGet(packet_list', <<"S", a>>)
              IN /\ OthersKept(<<"S", a>>)
                 /\ FrontKept(<<"S", a>>)
                 /\ new[Len(new) - 1] = 63
                 /\ new[Len(new)] = (IF d = FWD THEN 128 ELSE 0) + s]_vars

\* the long address 128 went forward at speed 0 and has been set to reverse
\* at speed 127, next to another entry
C13_Witness ==
    /\ log = <<Updated, <<"S", 128>>>> /\ ret = True
    /\ DictLen(packet_list) >= 2
    /\ DictGet(packet_list, <<"S", 128>>) = <<192, 128, 63, 127>>

\* the bit of each function in the function group one instruction
MaskOf(f) == CASE f = 0 -> 16 [] f = 1 -> 1 [] f = 2 -> 2 [] f = 3 -> 4 [] f = 4 -> 8
\* whether byte v has the bit of function f
HasF(v, f) == (v \div MaskOf(f)) % 2 = 1
\* the last byte of the entry of k
LastByte(tab, k) == DictGet(tab, k)[Len(DictGet(tab, k))]

\* C14 as claimed: set_fg1(a, f, 1) followed by set_fg1(a, f, 0) leaves the
\* instruction byte equal to its value before the set, whatever the entry
\* held before.
C14_RoundTrip ==
    (Len(log) = 4 /\ log[3] # None) => log[4] = log[3]

\* C14 as the code has it: set_fg1(a, f, 1) followed by set_fg1(a, f, 0)
\* leaves the instruction byte equal to its value before the set with the
\* bit of f cleared and no other bit changed: the value before if f was
\* off, 0x80 if there was no entry.
C14_ClearAfterSet ==
    Len(log) = 4 =>
        LET f == log[2]
            before == log[3]
            after == log[4]
        IN /\ LastByte(packet_list, <<"F", log[1]>>) = after
           /\ after = IF before = None THEN 128
                      ELSE IF HasF(before, f) THEN before - MaskOf(f)
                      ELSE before

\* function 2 of address 3 set and cleared with functions 0 and 4 on
C14_Witness ==
    /\ log = <<3, 2, 152, 152>>
    /\ DictGet(packet_list, <<"F", 3>>) = <<3, 152>>

\* C15: a valid set_fg1 on an entry that exists changes at most the bit of
\* its function in the last byte, 0x10, 0x01, 0x02, 0x04, 0x08 for functions
\* 0 to 4: on after state 1, off after state 0.  The bits of the other
\* functions, the 0x80 prefix, the address bytes and the other entries stay
\* as they were.
C15_BitsIndependent ==
    [][\A a \in AddrArgs \cap 1 .. 10239 :
          <<"F", a>> \in DictKeys(packet_list) =>
              \A f \in 0 .. 4, st \in {0, 1} :
                  set_fg1(a, f, st) =>
                      LET old == LastByte(packet_list, <<"F", a>>)
                          new == LastByte(packet_list', <<"F", a>>)
                      IN /\ OthersKept(<<"F", a>>)
                         /\ FrontKept(<<"F", a>>)
                         /\ HasF(new, f) <=> st = 1
                         /\ \A g \in (0 .. 4) \ {f} : HasF(new, g) <=> HasF(old, g)
                         /\ new \div 32 = 4]_vars

\* function 4 of address 3 has been switched off with functions 0 and 3
\* on, next to two other entries
C15_Witness ==
    /\ log = <<>> /\ DictLen(packet_list) = 3
    /\ DictGet(packet_list, <<"F", 3>>) = <<3, 148>>

\* what a call did when its arguments are in range (ok) and when not
Verdict(ok) ==
    IF ok THEN ret' = True
    ELSE /\ ret' = False
         /\ packet_list' = packet_list
         /\ packet_iter' = packet_iter
         /\ enable_pin' = enable_pin /\ sm_active' = sm_active
         /\ timer_active' = timer_active /\ power_pc' = power_pc

\* C16: set_speed with an address outside 1..0x27FF, a speed outside 0..127
\* or a direction that is neither FWD nor REV, and set_fg1 with an address
\* outside 1..0x27FF, a function outside 0..4 or a state outside {0, 1},
\* return False and leave the dict, the iterator, the pin, the state
\* machine and the timer as they were; all other calls return True.
C16_Validation ==
    [][/\ \A c \in PowSpeedCalls :
            set_speed(c[1], c[2], c[3]) =>
                Verdict(c[1] \in 1 .. 10239 /\ c[3] \in 0 .. 127 /\ c[2] \in {1, -1})
       /\ \A c \in PowFg1Calls :
            set_fg1(c[1], c[2], c[3]) =>
                Verdict(c[1] \in 1 .. 10239 /\ c[2] \in 0 .. 4 /\ c[3] \in {0, 1})]_vars

\* with the power on and two entries in the dict, set_speed has refused
\* address 0x2800
C16_Witness ==
    /\ ret = False /\ log = <<Refused, <<"S", 10240>>>>
    /\ PowerIsOn /\ packet_iter # None
    /\ DictLen(packet_list) = 2

\* the address bytes of an entry: the address itself up to 127, else 0xC0
\* with the high byte of the address, then its low byte
AddrFrame(a) == IF a <= 127 THEN <<a>> ELSE <<192 + (a \div 256), a % 256>>

\* key k has been added with entry v, the entries there were are unchanged
AddedTo(k, v) ==
    /\ DictKeys(packet_list') = DictKeys(packet_list) \cup {k}
    /\ DictLen(packet_list') = DictLen(packet_list) + 1
    /\ CountOf(packet_list', k) = 1
    /\ DictGet(packet_list', k) = v
    /\ \A j \in DictKeys(packet_list) : DictGet(packet_list', j) = DictGet(packet_list, j)

\* C17: a valid set_speed or set_fg1 for an address without an entry of its
\* kind inserts an entry of the address bytes (one byte up to 127, from 128
\* on 0xC0 | (address >> 8) and address & 0xFF) followed by 0x3F and the
\* direction and speed byte, or by 0x80 with the mask of the function if
\* the state is 1.
C17_AddressFraming ==
    [][/\ \A c \in RegSpeedCalls :
            (/\ c[1] \in 1 .. 10239 /\ c[3] \in 0 .. 127 /\ c[2] \in {1, -1}
             /\ <<"S", c[1]>> \notin DictKeys(packet_list)
             /\ set_speed(c[1], c[2], c[3])) =>
                AddedTo(<<"S", c[1]>>,
                        AddrFrame(c[1]) \o <<63, (IF c[2] = 1 THEN 128 ELSE 0) + c[3]>>)
       /\ \A c \in RegFg1Calls :
            (/\ c[1] \in 1 .. 10239 /\ c[2] \in 0 .. 4 /\ c[3] \in {0, 1}
             /\ <<"F", c[1]>> \notin DictKeys(packet_list)
             /\ set_fg1(c[1], c[2], c[3])) =>
                AddedTo(<<"F", c[1]>>,
                        AddrFrame(c[1]) \o <<128 + (IF c[3] = 1 THEN MaskOf(c[2]) ELSE 0)>>)]_vars

\* function 4 of address 0x27FF has been inserted switched on, as the
\* fourth entry, after the speed of addresses 127 and 128
C17_Witness ==
    /\ log = <<Inserted, <<"F", 10239>>>>
    /\ DictLen(packet_list) = 4
    /\ DictGet(packet_list, <<"F", 10239>>) = <<231, 255, 136>>
    /\ Len(DictGet(packet_list, <<"S", 127>>)) = 3
    /\ Len(DictGet(packet_list, <<"S", 128>>)) = 4

\* the pin, the state machine, the timer and the position of power
PowerState == <<enable_pin, sm_active, timer_active, power_pc>>

\* C18: no step of a power call, whatever its argument, changes the dict,
\* and neither does any step but a set_speed or set_fg1 that returns True,
\* so what was set with the power off is there when it is on; power()
\* without argument changes nothing at all and returns the value of the
\* enable pin.
C18_RegistryPersists ==
    [][/\ (PowerState' # PowerState \/ \E p \in PowerArgs : power_call(p)) =>
            packet_list' = packet_list
       /\ packet_list' # packet_list =>
            (ret' = True /\ log' # <<>> /\ log'[1] \in {Updated, Inserted})
       /\ power_call(None) => (ret' = enable_pin /\ prog' = prog)]_vars

\* power has been switched on with three entries in the dict and power()
\* has returned 1
C18_Witness ==
    /\ PowerIsOn /\ ret = 1 /\ log = <<>>
    /\ DictLen(packet_list) = 3

\* the entry v under key k has the shape of its kind
ShapeOf(k, v) ==
    LET n == Len(AddrFrame(k[2]))
    IN /\ SubSeq(v, 1, n) = AddrFrame(k[2])
       /\ IF k[1] = "S"
          THEN Len(v) = n + 2 /\ v[n + 1] = 63 /\ v[n + 2] \in 0 .. 255
          ELSE Len(v) = n + 1 /\ v[n + 1] \in 128 .. 159
       /\ Len(v) \in 2 .. 4

\* C19: every entry under ('S', a) is the address bytes of a, 0x3F and a
\* byte; every entry under ('F', a) is the address bytes of a and a byte
\* from 0x80 to 0x9F; so every entry has 2 to 4 bytes, and a timer callback
\* that raises does so for want of an iterator, never for a byte list of
\* more than 5 bytes.
C19_EntryShape ==
    /\ [](\A k \in DictKeys(packet_list) : ShapeOf(k, DictGet(packet_list, k)))
    /\ [][(nxt_packet /\ sent' = Raised) =>
            (DictLen(packet_list) > 0 /\ packet_iter = None)]_vars

\* the timer callback has sent the four-byte speed entry of address 0x27FF
\* from a dict that holds a function entry too
C19_Witness ==
    /\ sent = <<"S", 10239>>
    /\ DictKeys(packet_list) = {<<"S", 10239>>, <<"F", 10239>>}
    /\ DictGet(packet_list, <<"S", 10239>>) = <<231, 255, 63, 127>>
    /\ DictGet(packet_list, <<"F", 10239>>) = <<231, 255, 136>>
    /\ Len(fifo) >= 6

\* C20: whenever no power call is in progress the enable pin is high if and
\* only if the state machine is active, if and only if the packet timer
\* runs; all three are off at the start, and a power call with an
\* argument that is neither None nor ON goes the way of OFF.
C20_PowerCoupling ==
    /\ [](power_pc = "idle" =>
            /\ enable_pin = 1 <=> sm_active
            /\ sm_active <=> timer_active)
    /\ [][\A p \in PowerArgs \ {None, ON} :
            power_call(p) => (enable_pin' = 0 /\ power_pc' = "off_sm")]_vars

\* power has been on and is off again, words of a packet left in the FIFO
C20_Witness ==
    /\ power_pc = "idle" /\ packet_iter # None
    /\ enable_pin = 0 /\ ~sm_active /\ ~timer_active
    /\ fifo # <<>>

====
